---- MODULE Spec2Model ----
(***************************************************************************)
(* The batch request engine of src/Gemini.py: run_batch / process_file /   *)
(* generate_with_retry / read_file, the two TTL caches, the two rate       *)
(* limiters and the concurrency semaphore.                                  *)
(*                                                                         *)
(* Durations are integers in tenths of a second (2.0 s = 20, 60 s = 600).  *)
(* The asyncio event loop is cooperative: a task runs without interruption *)
(* from one suspension point (an await that really suspends) to the next.  *)
(* `running` is the task that currently executes synchronous code (0 when  *)
(* the loop is idle); time only passes while the loop is idle.             *)
(***************************************************************************)
EXTENDS Integers, Sequences, FiniteSets, TLC

(***************************************************************************)
(* Bounds of the model.                                                    *)
(***************************************************************************)
NumItems == 3
\* the specs given to parse_range have at most this many characters
MaxSpecLen == 5
\* the input lists given to parse_range have at most this many files
MaxTotal == 2
\* the environment injects at most this many faults (missing or blank file,
\* API error, timeout, I/O error on the output) into the batch of Init
MaxFaults == 3

(***************************************************************************)
(* Program constants (src/Gemini.py, lines 42-68), durations in 0.1 s.     *)
(***************************************************************************)
FILE_CACHE_TTL == 36000
RESPONSE_CACHE_TTL == 36000
MAX_RETRIES == 3
BASE_RETRY_DELAY == 20
JITTER_MAX == 5
REQUEST_TIMEOUT == 600
FILE_CACHE_MAXSIZE == 128
RESP_CACHE_MAXSIZE == 256

default_models ==
  [m \in {"gemini-2.5-flash-preview-04-17", "gemini-2.0-flash-001",
          "gemini-1.5-flash", "gemini-1.5-flash-8b", "gemini-1.5-pro"} |->
     IF m = "gemini-2.5-flash-preview-04-17" THEN 65536 ELSE 8192]

\* AsyncLimiter(max_rate, time_period): a leaky bucket of max_rate permits
\* that drains max_rate permits per time_period.
RATE_LIMITS ==
  [pro   |-> [max_rate |-> 2,  time_period |-> 600],
   flash |-> [max_rate |-> 10, time_period |-> 600]]

Classes == {"pro", "flash"}

\* Python's None where a text is expected: a tuple that is no text
None == <<"None">>

(***************************************************************************)
(* Strings.  A model identifier is a TLA+ string; a text (file content,    *)
(* generated text) is a tuple of one-character strings.                    *)
(***************************************************************************)
\* Python: sub in s
Contains(s, sub) ==
  \E i \in 1..(Len(s) - Len(sub) + 1) : SubSeq(s, i, i + Len(sub) - 1) = sub

Whitespace == {" ", "\n", "\t", "\r"}

\* Python: not s.strip()
IsBlank(s) == \A i \in 1..Len(s) : s[i] \in Whitespace

Range(s) == {s[i] : i \in 1..Len(s)}

\* Python: s.strip(chars)
Strip(s, chars) ==
  LET keep == {i \in 1..Len(s) : s[i] \notin chars} IN
  IF keep = {} THEN <<>>
  ELSE SubSeq(s, CHOOSE i \in keep : \A j \in keep : i <= j,
                 CHOOSE i \in keep : \A j \in keep : j <= i)

\* the position of the first c in s, 0 when there is none
Find(s, c) ==
  IF c \in Range(s)
  THEN CHOOSE i \in 1..Len(s) : s[i] = c /\ \A j \in 1..(i - 1) : s[j] # c
  ELSE 0

\* Python: s.split(sep), for a separator of one character
RECURSIVE Split(_, _)
Split(s, sep) ==
  IF Find(s, sep) = 0 THEN <<s>>
  ELSE <<SubSeq(s, 1, Find(s, sep) - 1)>>
         \o Split(SubSeq(s, Find(s, sep) + 1, Len(s)), sep)

Quotes == {"\"", "'"}

\* sanitize, line 89: raw.strip().strip('"\'')
sanitize(raw) == Strip(Strip(raw, Whitespace), Quotes)

DigitChars == <<"0", "1", "2", "3", "4", "5", "6", "7", "8", "9">>
Digits == Range(DigitChars)
DigitVal(c) == (CHOOSE i \in 1..10 : DigitChars[i] = c) - 1

RECURSIVE DigitsVal(_)
DigitsVal(s) ==
  IF s = <<>> THEN 0
  ELSE DigitsVal(SubSeq(s, 1, Len(s) - 1)) * 10 + DigitVal(s[Len(s)])

(***************************************************************************)
(* Python: int(s) for a string s.  Whitespace around the literal and a     *)
(* sign before the digits are accepted; anything else but digits raises    *)
(* ValueError.  (Underscores between digits are accepted as well; the      *)
(* strings of the model have none.)                                        *)
(***************************************************************************)
Signs == {"+", "-"}

IntDigits(s) ==
  LET t == Strip(s, Whitespace) IN
  IF t # <<>> /\ t[1] \in Signs THEN Tail(t) ELSE t

\* an int() that takes every string
IntOkAny(s) == TRUE

\* int(s) returns
IntOk(s) == IntDigits(s) # <<>> /\ \A i \in 1..Len(IntDigits(s)) : IntDigits(s)[i] \in Digits

\* the value int(s) returns
IntVal(s) ==
  LET t == Strip(s, Whitespace)
      v == DigitsVal(SelectSeq(IntDigits(s), LAMBDA c : c \in Digits))
  IN IF t # <<>> /\ t[1] = "-" THEN 0 - v ELSE v

RECURSIVE Sorted(_)
\* Python: sorted(S) for a set S of integers
Sorted(S) ==
  IF S = {} THEN <<>>
  ELSE LET m == CHOOSE x \in S : \A y \in S : x <= y
       IN <<m>> \o Sorted(S \ {m})

(***************************************************************************)
(* The batch's inputs.  A path is a directory and a base name; the disk    *)
(* maps a path to its text.                                                *)
(***************************************************************************)
P1 == [dir |-> "a", name |-> "f1.txt"]
P2 == [dir |-> "b", name |-> "f1.txt"]
P3 == [dir |-> "a", name |-> "f2.txt"]
Paths == {P1, P2, P3}
Names == {p.name : p \in Paths}

Disk(p) == IF p = P3 THEN <<"b">> ELSE <<"a">>
BlankText == <<" ", "\n">>

\* main() reads the system prompt with read_file, which caches it; here the
\* prompt file is P3, which is also the third input.
PromptPath == P3
SystemInstruction == Disk(PromptPath)
Temperature == 0

ModelChoices == {"gemini-1.5-pro", "gemini-1.5-flash", "gemini-exp"}

\* the input lists: two files of the same base name and content, then the
\* first again, then the prompt file, and so on
PathList == <<P1, P2, P1, P3>>
InputFiles(n) == [i \in 1..n |-> PathList[((i - 1) % Len(PathList)) + 1]]

Min(a, b) == IF a <= b THEN a ELSE b
Max(a, b) == IF a >= b THEN a ELSE b

(***************************************************************************)
(* cachetools.TTLCache(maxsize, ttl): a sequence of entries, the least     *)
(* recently used first; age is the time since the entry was set.           *)
(***************************************************************************)
RemoveAt(s, i) == SubSeq(s, 1, i - 1) \o SubSeq(s, i + 1, Len(s))

\* TTLCache.expire
CacheExpire(cache, ttl) == SelectSeq(cache, LAMBDA e : e.age < ttl)

CacheHas(cache, k) == \E i \in 1..Len(cache) : cache[i].key = k
CacheIndex(cache, k) == CHOOSE i \in 1..Len(cache) : cache[i].key = k

\* a lookup that takes an entry of any age
CacheContainsStale(cache, ttl, k) == \E i \in 1..Len(cache) : cache[i].key = k

\* TTLCache.__contains__: key in cache (no reordering)
CacheContains(cache, ttl, k) ==
  \E i \in 1..Len(cache) : cache[i].key = k /\ cache[i].age < ttl

\* TTLCache.__getitem__: cache[key], for a key that is in the cache
CacheValue(cache, k) == cache[CacheIndex(cache, k)].value

\* a lookup that leaves the order of use alone
CacheTouchNot(cache, k) == cache

\* TTLCache.__getitem__ marks the key as most recently used
CacheTouch(cache, k) ==
  LET i == CacheIndex(cache, k) IN RemoveAt(cache, i) \o <<cache[i]>>

\* TTLCache.__setitem__: cache[key] = value
CachePut(cache, maxsize, ttl, k, v) ==
  LET live == CacheExpire(cache, ttl)
      kept == IF CacheHas(live, k) THEN RemoveAt(live, CacheIndex(live, k))
              ELSE IF Len(live) >= maxsize
                   THEN SubSeq(live, Len(live) - maxsize + 2, Len(live))
                   ELSE live
  IN kept \o <<[key |-> k, value |-> v, age |-> 0]>>

\* the passing of d units of time, seen by a cache
CacheAge(cache, ttl, d) ==
  [i \in 1..Len(cache) |-> [cache[i] EXCEPT !.age = Min(@ + d, ttl)]]

(***************************************************************************)
(* aiolimiter.AsyncLimiter: the level is kept in units of 1/time_period of *)
(* a permit, so that it is an integer: one permit is time_period units and *)
(* the bucket drains max_rate units per unit of time.                      *)
(***************************************************************************)
\* a selection by the "pro" marker
LimiterOfPro(m) == IF Contains(m, "pro") THEN "pro" ELSE "flash"

\* generate_with_retry, line 210
LimiterOf(m) == IF Contains(m, "flash") THEN "flash" ELSE "pro"

\* an acquisition that takes nothing from the bucket
PermitFree(c) == 0

\* AsyncLimiter.acquire(1): one permit, in units of 1/time_period of a permit
Permit(c) == RATE_LIMITS[c].time_period

Capacity(c) == RATE_LIMITS[c].max_rate * RATE_LIMITS[c].time_period
\* a bucket that never drains
LeakNever(lv, c, d) == lv

\* AsyncLimiter._leak over d units of time
Leak(lv, c, d) == Max(lv - d * RATE_LIMITS[c].max_rate, 0)
\* a bucket that takes a permit whenever it is not yet full
HasCapacityNotFull(lv, c) == lv < Capacity(c)

\* AsyncLimiter.has_capacity
HasCapacity(lv, c) == lv + Permit(c) <= Capacity(c)

(***************************************************************************)
(* The remote service's answers.  A generated text is a tuple of           *)
(* characters; BT stands for the backtick.                                 *)
(***************************************************************************)
BT == "BT"
NL == "\n"
Fence == <<BT, BT, BT>>

\* a response with a fenced text, and one whose text is in its parts
RespFenced == [text |-> <<BT, BT, BT, "j", NL, "x", NL, BT, BT, BT>>, parts |-> <<>>]
RespParts == [text |-> None, parts |-> << <<"o">>, None, <<"k">> >>]
NoResp == [text |-> None, parts |-> <<>>]
Responses == {RespFenced, RespParts}

\* the codes of the APIErrors the service answers with
ApiCodes == {429, 503, 500}

\* a handler that retries after every APIError
RetryableAlways(code) == TRUE

\* line 230: e.code in (429, 503)
Retryable(code) == code \in {429, 503}

\* a loop that runs once more than MAX_RETRIES times
MoreAttemptsOffByOne(att) == att <= MAX_RETRIES

\* line 212: for attempt in range(1, MAX_RETRIES + 1) has a next iteration
MoreAttempts(att) == att < MAX_RETRIES

RECURSIVE JoinParts(_)
\* "".join(chunk.text or "" for chunk in parts)
JoinParts(parts) ==
  IF parts = <<>> THEN <<>>
  ELSE (IF Head(parts) = None THEN <<>> ELSE Head(parts)) \o JoinParts(Tail(parts))

\* a response read by its text alone
ExtractTextOnly(resp) == resp.text

\* line 224: resp.text or "".join(...)
ExtractText(resp) ==
  IF resp.text # None /\ resp.text # <<>> THEN resp.text ELSE JoinParts(resp.parts)

\* line 284: re.sub(r"^```.*?\n|```$", "", result, flags=re.DOTALL)
FenceAt(s, i) == i >= 1 /\ i + 2 <= Len(s) /\ SubSeq(s, i, i + 2) = Fence

\* the end of the match of ^```.*?\n at the start of s, 0 when it does not match
OpenEnd(s) ==
  IF FenceAt(s, 1) /\ \E i \in 4..Len(s) : s[i] = NL
  THEN CHOOSE i \in 4..Len(s) : s[i] = NL /\ \A j \in 4..(i - 1) : s[j] # NL
  ELSE 0

\* the start of the match of ```$ (at the end, or before a final newline), 0 when none
CloseStart(s) ==
  LET from == OpenEnd(s) + 1
      cand == {i \in from..Len(s) :
                 /\ FenceAt(s, i)
                 /\ \/ i + 2 = Len(s)
                    \/ i + 3 = Len(s) /\ s[Len(s)] = NL}
  IN IF cand = {} THEN 0 ELSE CHOOSE i \in cand : \A j \in cand : i <= j

Clean(s) ==
  LET o == OpenEnd(s)
      c == CloseStart(s)
  IN IF c = 0 THEN SubSeq(s, o + 1, Len(s))
     ELSE SubSeq(s, o + 1, c - 1) \o SubSeq(s, c + 3, Len(s))

\* line 205: the response cache's key
Fingerprint(m, txt, instr, temp) == <<m, <<txt>>, instr, temp>>

VARIABLES
  model_id,      \* run_batch's model_id
  batch_size,    \* run_batch's batch_size
  input_files,   \* run_batch's input_files: sequence of paths
  batch,         \* "running" | "returned" | "raised"
  pc,            \* pc[t]: where task t is in process_file
  running,       \* the task executing synchronous code, 0 when none
  sem_value,     \* asyncio.Semaphore._value
  sem_waiters,   \* asyncio.Semaphore._waiters, FIFO
  text,          \* text[t]: the file content read (None before)
  attempt,       \* attempt[t]: the retry loop's variable (0 outside the loop)
  timer,         \* timer[t]: elapsed time of the call in flight / remaining sleep
  result,        \* result[t]: what generate_with_retry returned (None before)
  error,         \* error[t]: the exception that ended the task (None if none)
  calls,         \* calls[t]: remote-call attempts made by task t
  outcomes,      \* outcomes[t]: how each of these attempts ended, in order
  seen,          \* seen[t]: the texts that calls with t's fingerprint had returned
                 \* when t's call to generate_with_retry started
  file_cache,    \* TTLCache(128, 3600)
  resp_cache,    \* TTLCache(256, 3600)
  level,         \* level[c]: AsyncLimiter._level of class c, in 1/time_period permits
  admits,        \* admits[c]: ages of the admissions of class c younger than time_period
  out_files,     \* the output directory: base name -> text, None when absent
  log,           \* log[t]: the log records emitted while task t ran
  faults,        \* the faults the environment may still inject
  victims,       \* the tasks the environment may inject faults into
  round,         \* the number of the batch in main's loop
  fn,            \* the function called on its own: "none" when run_batch is
  fn_pc,         \* where that call is
  spec,          \* parse_range's spec
  total,         \* parse_range's total
  split_parts,   \* what is left of spec.split(',') for the loop of line 163
  include,       \* parse_range's include
  exclude,       \* parse_range's exclude
  selection,     \* the list parse_range returned
  selected,      \* main's selected, as positions of inputs
  raised,        \* the exception that ended the call, "none" when none
  bad,           \* the literal that the ValueError names
  limiter,       \* generate_with_retry's limiter, by its class
  last_use       \* the last use of a cache by a call on its own: what, which key,
                 \* and how many keys have been used so far

vars == <<model_id, batch_size, input_files, batch, pc, running, sem_value,
          sem_waiters, text, attempt, timer, result, error, calls, outcomes,
          seen, file_cache, resp_cache, level, admits, out_files, log, faults,
          victims, round, fn, fn_pc, spec, total, split_parts, include, exclude,
          selection, selected, raised, bad, limiter, last_use>>

\* the state of a function called on its own
fnVars == <<fn, fn_pc, spec, total, split_parts, include, exclude, selection, selected,
            raised, bad, limiter, last_use>>

\* what the steps of a batch leave alone
cfgVars == <<model_id, batch_size, input_files, victims, round, fnVars>>
\* what the past attempts were: changed by the steps of a call only
histVars == <<outcomes, seen>>

Tasks == 1..Len(input_files)

\* the environment may inject one more fault, into task t
MayFail(t) == faults > 0 /\ t \in victims
Fault == faults' = faults - 1
\* the outcomes of a step of task t that the environment can make fail: TRUE is success
Fallible(t) == IF MayFail(t) THEN BOOLEAN ELSE {TRUE}

NoError == "none"
JitterChoices == {0, JITTER_MAX - 1}

\* the limiter generate_with_retry selects, and the key it computes
Class == LimiterOf(model_id)

\* a key that leaves the text of the request out
KeyOfModel(t) == Fingerprint(model_id, None, SystemInstruction, Temperature)

\* generate_with_retry, line 205
Key(t) == Fingerprint(model_id, text[t], SystemInstruction, Temperature)

LogRec(lvl, task, what) == [level |-> lvl, task |-> task, what |-> what]

\* run_batch is called: lines 315-319 have created the semaphore and the tasks
Start(models, files, sizes, hit, budget) ==
  /\ model_id \in models
  /\ input_files = files
  /\ batch_size \in sizes
  /\ victims \in hit
  /\ faults = budget
  /\ batch = "running"
  /\ pc = [t \in Tasks |-> "created"]
  /\ running = 0
  /\ sem_value = batch_size
  /\ sem_waiters = <<>>
  /\ text = [t \in Tasks |-> None]
  /\ attempt = [t \in Tasks |-> 0]
  /\ timer = [t \in Tasks |-> 0]
  /\ result = [t \in Tasks |-> None]
  /\ error = [t \in Tasks |-> NoError]
  /\ calls = [t \in Tasks |-> 0]
  /\ outcomes = [t \in Tasks |-> <<>>]
  /\ seen = [t \in Tasks |-> {}]
  /\ file_cache = <<[key |-> PromptPath, value |-> SystemInstruction, age |-> 0]>>
  /\ resp_cache = <<>>
  /\ level = [c \in Classes |-> 0]
  /\ admits = [c \in Classes |-> <<>>]
  /\ out_files = [n \in Names |-> None]
  /\ log = [t \in Tasks |-> <<>>]

(***************************************************************************)
(* Scheduling: asyncio.gather starts the tasks in input order, each        *)
(* running to its first suspension before the next starts; afterwards a    *)
(* suspended task continues when the loop is idle.                         *)
(***************************************************************************)
AllStarted == \A t \in Tasks : pc[t] # "created"
CanRun(t) == batch = "running" /\ (running = t \/ (running = 0 /\ AllStarted))

(***************************************************************************)
(* asyncio.Semaphore.release (the exit of `async with semaphore`): the     *)
(* slot goes to the first waiter, which becomes ready to run, or back to   *)
(* the counter.                                                            *)
(***************************************************************************)
\* a semaphore that lets one task too many in
LockedOffByOne == sem_value < 0 \/ sem_waiters # <<>>

\* asyncio.Semaphore.locked
Locked == sem_value = 0 \/ sem_waiters # <<>>

\* a release that wakes the waiter that came last
ReleasedLast(p) ==
  IF sem_waiters # <<>> THEN [p EXCEPT ![sem_waiters[Len(sem_waiters)]] = "enter"] ELSE p

\* asyncio.Semaphore.release: the first waiter is woken with the slot
Released(p) ==
  IF sem_waiters # <<>> THEN [p EXCEPT ![Head(sem_waiters)] = "enter"] ELSE p

\* an exit that keeps the slot
ReleaseNever == UNCHANGED <<sem_waiters, sem_value>>

\* asyncio.Semaphore.release: the counter and the queue
Release ==
  /\ sem_waiters' = IF sem_waiters # <<>> THEN Tail(sem_waiters) ELSE sem_waiters
  /\ sem_value' = IF sem_waiters # <<>> THEN sem_value ELSE sem_value + 1

\* a handler that catches the errors of the remote call only
CaughtApiOnly(exc) == exc \in {"APIError", "RuntimeError"}

\* process_file, line 293: `except Exception` catches every exception a step raises
Caught(exc) == TRUE

\* An exception exc raised inside process_file's try block by task t, whose
\* log so far is lg: lines 293-294, then the exit of line 262.  Were it not
\* caught, gather would raise it out of run_batch and asyncio.run would
\* cancel the tasks still pending.
Failed(t, exc, lg) ==
  /\ timer' = [timer EXCEPT ![t] = 0]
  /\ running' = 0
  /\ Release
  /\ IF Caught(exc)
     THEN /\ log' = [log EXCEPT ![t] = Append(lg, LogRec("error", t, exc))]
          /\ error' = [error EXCEPT ![t] = exc]
          /\ pc' = Released([pc EXCEPT ![t] = "done"])
          /\ batch' = batch
     ELSE /\ log' = [log EXCEPT ![t] = lg]
          /\ error' = [u \in Tasks |->
                         IF u = t THEN exc
                         ELSE IF pc[u] # "done" THEN "CancelledError" ELSE error[u]]
          /\ pc' = [u \in Tasks |-> "done"]
          /\ batch' = "raised"

Fail(t, exc, lg) ==
  /\ Failed(t, exc, lg)
  /\ UNCHANGED <<cfgVars, text, attempt, result, calls, file_cache, resp_cache,
                 level, admits, out_files>>

\* run_batch, lines 316-320, and process_file, line 262: task t starts and
\* takes a slot of the semaphore, or queues for one.
StartTask(t) ==
  /\ batch = "running" /\ running = 0
  /\ pc[t] = "created"
  /\ \A u \in Tasks : u < t => pc[u] # "created"
  /\ IF ~Locked
     THEN /\ sem_value' = sem_value - 1
          /\ pc' = [pc EXCEPT ![t] = "enter"]
          /\ running' = t
          /\ UNCHANGED sem_waiters
     ELSE /\ sem_waiters' = Append(sem_waiters, t)
          /\ pc' = [pc EXCEPT ![t] = "sem_wait"]
          /\ running' = 0
          /\ UNCHANGED sem_value
  /\ UNCHANGED <<cfgVars, histVars, batch, text, attempt, timer, result, error, calls,
                 file_cache, resp_cache, level, admits, out_files, log, faults>>

\* process_file, lines 263-266, and read_file, lines 104-110
Enter(t) ==
  /\ CanRun(t)
  /\ pc[t] = "enter"
  /\ LET p == input_files[t]
         lg == Append(log[t], LogRec("info", t, "Processing"))
     IN IF CacheContains(file_cache, FILE_CACHE_TTL, p)
        THEN /\ text' = [text EXCEPT ![t] = CacheValue(file_cache, p)]
             /\ file_cache' = CacheTouch(file_cache, p)
             /\ pc' = [pc EXCEPT ![t] = "build"]
             /\ running' = t
             /\ log' = [log EXCEPT ![t] = lg]
             /\ UNCHANGED <<cfgVars, histVars, batch, sem_value, sem_waiters, attempt, timer,
                            result, error, calls, resp_cache, level, admits,
                            out_files, faults>>
        ELSE \E is_file \in Fallible(t) :
               IF is_file
               THEN /\ pc' = [pc EXCEPT ![t] = "read_wait"]
                    /\ running' = 0
                    /\ log' = [log EXCEPT ![t] = lg]
                    /\ UNCHANGED <<cfgVars, histVars, batch, sem_value, sem_waiters, text,
                                   attempt, timer, result, error, calls, file_cache,
                                   resp_cache, level, admits, out_files, faults>>
               ELSE Fail(t, "FileNotFoundError", lg) /\ Fault /\ UNCHANGED histVars

\* read_file, lines 110-117
ReadDone(t) ==
  /\ CanRun(t)
  /\ pc[t] = "read_wait"
  /\ \E ok \in Fallible(t) :
       LET content == IF ok THEN Disk(input_files[t]) ELSE BlankText IN
       IF IsBlank(content)
       THEN Fail(t, "ValueError", log[t]) /\ Fault /\ UNCHANGED histVars
       ELSE /\ file_cache' = CachePut(file_cache, FILE_CACHE_MAXSIZE, FILE_CACHE_TTL,
                                      input_files[t], content)
            /\ text' = [text EXCEPT ![t] = content]
            /\ pc' = [pc EXCEPT ![t] = "build"]
            /\ running' = t
            /\ UNCHANGED <<cfgVars, histVars, batch, sem_value, sem_waiters, attempt, timer,
                           result, error, calls, resp_cache, level, admits,
                           out_files, log, faults>>

\* the texts that calls with the fingerprint of t's request have returned
Returned(t) ==
  {result[u] : u \in {v \in Tasks : v # t /\ result[v] # None /\ Key(v) = Key(t)}}

\* process_file, lines 267-282, and generate_with_retry, lines 205-212
Generate(t) ==
  /\ CanRun(t)
  /\ pc[t] = "build"
  /\ IF model_id \notin DOMAIN default_models
     THEN Fail(t, "KeyError", log[t]) /\ UNCHANGED <<faults, histVars>>
     ELSE /\ seen' = [seen EXCEPT ![t] = Returned(t)]
          /\ IF CacheContains(resp_cache, RESPONSE_CACHE_TTL, Key(t))
             THEN /\ result' = [result EXCEPT ![t] = CacheValue(resp_cache, Key(t))]
                  /\ resp_cache' = CacheTouch(resp_cache, Key(t))
                  /\ pc' = [pc EXCEPT ![t] = "write_wait"]
                  /\ running' = 0
                  /\ UNCHANGED attempt
             ELSE /\ attempt' = [attempt EXCEPT ![t] = 1]
                  /\ pc' = [pc EXCEPT ![t] = "acquire"]
                  /\ running' = t
                  /\ UNCHANGED <<result, resp_cache>>
          /\ UNCHANGED <<cfgVars, outcomes, batch, sem_value, sem_waiters, text,
                         timer, error, calls, file_cache, level, admits, out_files,
                         log, faults>>

\* an admission after which the timeout of a task that had to wait is used up
AdmittedClockRunning(t) ==
  /\ level' = [level EXCEPT ![Class] = @ + Permit(Class)]
  /\ admits' = [admits EXCEPT ![Class] =
                   Append(@, [age |-> 0, waited |-> pc[t] = "lim_wait"])]
  /\ calls' = [calls EXCEPT ![t] = @ + 1]
  /\ timer' = [timer EXCEPT ![t] = IF pc[t] = "lim_wait" THEN REQUEST_TIMEOUT ELSE 0]
  /\ pc' = [pc EXCEPT ![t] = "calling"]
  /\ running' = 0
  /\ UNCHANGED <<cfgVars, histVars, batch, sem_value, sem_waiters, text, attempt, result,
                 error, file_cache, resp_cache, out_files, log, faults>>

\* AsyncLimiter.acquire grants a permit and the remote call of lines 215-222 starts
Admitted(t) ==
  /\ level' = [level EXCEPT ![Class] = @ + Permit(Class)]
  /\ admits' = [admits EXCEPT ![Class] =
                   Append(@, [age |-> 0, waited |-> pc[t] = "lim_wait"])]
  /\ calls' = [calls EXCEPT ![t] = @ + 1]
  /\ timer' = [timer EXCEPT ![t] = 0]
  /\ pc' = [pc EXCEPT ![t] = "calling"]
  /\ running' = 0
  /\ UNCHANGED <<cfgVars, histVars, batch, sem_value, sem_waiters, text, attempt, result,
                 error, file_cache, resp_cache, out_files, log, faults>>

\* generate_with_retry, line 214: `async with limiter`
Acquire(t) ==
  /\ CanRun(t)
  /\ pc[t] = "acquire"
  /\ IF HasCapacity(level[Class], Class)
     THEN Admitted(t)
     ELSE /\ pc' = [pc EXCEPT ![t] = "lim_wait"]
          /\ running' = 0
          /\ UNCHANGED <<cfgVars, histVars, batch, sem_value, sem_waiters, text, attempt,
                         timer, result, error, calls, file_cache, resp_cache, level,
                         admits, out_files, log, faults>>

\* AsyncLimiter.acquire: a waiter finds capacity when it checks again
Admit(t) ==
  /\ CanRun(t)
  /\ pc[t] = "lim_wait"
  /\ HasCapacity(level[Class], Class)
  /\ Admitted(t)

Outcome(kind, code, resp) == [kind |-> kind, code |-> code, resp |-> resp]

\* generate_with_retry, lines 215-226: the remote call returns a response
CallReturn(t) ==
  /\ CanRun(t)
  /\ pc[t] = "calling"
  /\ timer[t] < REQUEST_TIMEOUT
  /\ \E resp \in Responses :
       LET txt == ExtractText(resp) IN
       /\ resp_cache' = CachePut(resp_cache, RESP_CACHE_MAXSIZE, RESPONSE_CACHE_TTL,
                                 Key(t), txt)
       /\ result' = [result EXCEPT ![t] = txt]
       /\ outcomes' = [outcomes EXCEPT ![t] = Append(@, Outcome("ok", 200, resp))]
  /\ timer' = [timer EXCEPT ![t] = 0]
  /\ pc' = [pc EXCEPT ![t] = "write_wait"]
  /\ running' = 0
  /\ UNCHANGED <<cfgVars, seen, batch, sem_value, sem_waiters, text, attempt, error,
                 calls, file_cache, level, admits, out_files, log, faults>>

\* a backoff that does not grow with the attempts
RetryDelayFlat(att, jitter) == BASE_RETRY_DELAY + jitter

\* line 231: BASE_RETRY_DELAY * attempt + random.random() * JITTER_MAX
RetryDelay(att, jitter) == BASE_RETRY_DELAY * att + jitter

\* generate_with_retry, lines 228-236: the remote call fails with an APIError
CallError(t) ==
  /\ CanRun(t)
  /\ pc[t] = "calling"
  /\ timer[t] < REQUEST_TIMEOUT
  /\ MayFail(t) /\ Fault
  /\ \E code \in ApiCodes :
       /\ outcomes' = [outcomes EXCEPT ![t] = Append(@, Outcome("api", code, NoResp))]
       /\ IF Retryable(code)
          THEN /\ \E jitter \in JitterChoices :
                    timer' = [timer EXCEPT ![t] = RetryDelay(attempt[t], jitter)]
               /\ log' = [log EXCEPT ![t] = Append(@, LogRec("warning", 0, "Transient"))]
               /\ pc' = [pc EXCEPT ![t] = "sleeping"]
               /\ running' = 0
               /\ UNCHANGED <<cfgVars, batch, sem_value, sem_waiters, text, attempt,
                              result, error, calls, file_cache, resp_cache, level,
                              admits, out_files>>
          ELSE Fail(t, "APIError", Append(log[t], LogRec("error", 0, "API error")))
  /\ UNCHANGED seen

\* generate_with_retry, lines 215-222: asyncio.wait_for raises TimeoutError,
\* which is no APIError, so line 228 does not catch it
CallTimeout(t) ==
  /\ CanRun(t)
  /\ pc[t] = "calling"
  /\ timer[t] = REQUEST_TIMEOUT
  /\ outcomes' = [outcomes EXCEPT ![t] = Append(@, Outcome("timeout", 0, NoResp))]
  /\ Fail(t, "TimeoutError", log[t])
  /\ UNCHANGED <<faults, seen>>

\* generate_with_retry, lines 233, 212 and 238-239: the sleep is over
Wake(t) ==
  /\ CanRun(t)
  /\ pc[t] = "sleeping"
  /\ timer[t] = 0
  /\ IF MoreAttempts(attempt[t])
     THEN /\ attempt' = [attempt EXCEPT ![t] = @ + 1]
          /\ pc' = [pc EXCEPT ![t] = "acquire"]
          /\ running' = t
          /\ UNCHANGED <<cfgVars, histVars, batch, sem_value, sem_waiters, text, timer,
                         result, error, calls, file_cache, resp_cache, level,
                         admits, out_files, log, faults>>
     ELSE Fail(t, "RuntimeError", log[t]) /\ UNCHANGED <<faults, histVars>>

\* process_file, lines 284 and 287-291, then the exit of line 262: the output
\* file is opened (which empties it) and the cleaned text written
WriteOutcomes(t) == IF MayFail(t) THEN {"ok", "open_failed", "write_failed"} ELSE {"ok"}

WriteDone(t) ==
  /\ CanRun(t)
  /\ pc[t] = "write_wait"
  /\ \E outcome \in WriteOutcomes(t) :
       LET name == input_files[t].name IN
       IF outcome = "ok"
       THEN /\ out_files' = [out_files EXCEPT ![name] = Clean(result[t])]
            /\ log' = [log EXCEPT ![t] = Append(@, LogRec("info", t, "Wrote"))]
            /\ error' = error
            /\ pc' = Released([pc EXCEPT ![t] = "done"])
            /\ Release
            /\ running' = 0
            /\ UNCHANGED <<cfgVars, histVars, batch, text, attempt, timer, result, calls,
                           file_cache, resp_cache, level, admits, faults>>
       ELSE /\ Failed(t, "OSError", log[t])
            /\ Fault
            /\ out_files' = IF outcome = "write_failed"
                            THEN [out_files EXCEPT ![name] = <<>>] ELSE out_files
            /\ UNCHANGED <<cfgVars, histVars, text, attempt, result, calls, file_cache,
                           resp_cache, level, admits>>

\* a gather that returns with the first task that finishes
FirstDone == \E t \in Tasks : pc[t] = "done"

\* asyncio.gather, line 320: every awaitable given to it has finished
AllDone == \A t \in Tasks : pc[t] = "done"

\* run_batch, line 320: gather returns when every task has finished
BatchReturn ==
  /\ batch = "running"
  /\ AllDone
  /\ batch' = "returned"
  /\ UNCHANGED <<cfgVars, histVars, pc, running, sem_value, sem_waiters, text, attempt,
                 timer, result, error, calls, file_cache, resp_cache, level,
                 admits, out_files, log, faults>>

(***************************************************************************)
(* Time.  A sleep ends and a call times out exactly when due, and a task   *)
(* waiting for a permit can get one once the bucket has drained enough.    *)
(* Time advances from one of these events to the next.  A call that is     *)
(* left unanswered until its timeout is a fault of the environment.        *)
(* The timed events of one batch span far less than the caches' TTL of an  *)
(* hour (at most MAX_RETRIES calls of REQUEST_TIMEOUT per task, with their *)
(* sleeps and waits for permits), so these steps expire no cache entry.    *)
(***************************************************************************)
Deadlines ==
  {timer[t] : t \in {u \in Tasks : pc[u] = "sleeping"}} \cup
  {REQUEST_TIMEOUT - timer[t] : t \in {u \in Tasks : pc[u] = "calling"}}

\* the time after which a bucket at level lv has room for one more permit
DrainTime(lv, c) ==
  LET over == lv + Permit(c) - Capacity(c)
      rate == RATE_LIMITS[c].max_rate
  IN IF over <= 0 THEN 0 ELSE (over + rate - 1) \div rate

Events ==
  Deadlines \cup
  {DrainTime(level[Class], Class) : t \in {u \in Tasks : pc[u] = "lim_wait"}}

TickSteps == {d \in Events : d > 0 /\ \A e \in Events : d <= e}

Tick(d) ==
  /\ batch = "running" /\ running = 0 /\ AllStarted
  /\ d \in TickSteps
  /\ LET due == {t \in Tasks : pc[t] = "calling" /\ timer[t] + d = REQUEST_TIMEOUT}
     IN /\ due \subseteq victims
        /\ Cardinality(due) <= faults
        /\ faults' = faults - Cardinality(due)
  /\ timer' = [t \in Tasks |->
                 IF pc[t] = "sleeping" THEN timer[t] - d
                 ELSE IF pc[t] = "calling" THEN timer[t] + d
                 ELSE timer[t]]
  /\ level' = [c \in Classes |-> Leak(level[c], c, d)]
  /\ admits' = [c \in Classes |->
                  SelectSeq([i \in 1..Len(admits[c]) |->
                               [admits[c][i] EXCEPT !.age = @ + d]],
                            LAMBDA a : a.age < RATE_LIMITS[c].time_period)]
  /\ UNCHANGED <<cfgVars, histVars, batch, pc, running, sem_value, sem_waiters, text,
                 attempt, result, error, calls, file_cache, resp_cache, out_files,
                 log>>

Next ==
  \/ \E t \in Tasks : StartTask(t)
  \/ \E t \in Tasks : Enter(t)
  \/ \E t \in Tasks : ReadDone(t)
  \/ \E t \in Tasks : Generate(t)
  \/ \E t \in Tasks : Acquire(t)
  \/ \E t \in Tasks : Admit(t)
  \/ \E t \in Tasks : CallReturn(t)
  \/ \E t \in Tasks : CallError(t)
  \/ \E t \in Tasks : CallTimeout(t)
  \/ \E t \in Tasks : Wake(t)
  \/ \E t \in Tasks : WriteDone(t)
  \/ BatchReturn
  \/ \E d \in TickSteps : Tick(d)

(***************************************************************************)
(* Two scenarios.  Init: a batch of two files with the same content, any   *)
(* model, up to MaxFaults faults in any task.  InitBatch: a batch of       *)
(* NumItems files run with the pro model or an unknown one, in which one   *)
(* fault hits the second task.                                             *)
(***************************************************************************)
\* no function is called on its own
NoUse == [op |-> "none", key |-> 0, used |-> 0]

NoCall ==
  /\ last_use = NoUse
  /\ fn = "none" /\ fn_pc = "idle"
  /\ spec = <<>> /\ total = 0 /\ split_parts = <<>>
  /\ include = {} /\ exclude = {}
  /\ selection = <<>> /\ selected = <<>>
  /\ raised = NoError /\ bad = <<>>
  /\ limiter = "none"

Init ==
  /\ Start(ModelChoices, <<P1, P2>>, {1, 2}, {{1, 2}}, MaxFaults)
  /\ round = 1 /\ NoCall

InitBatch ==
  /\ Start({"gemini-1.5-pro", "gemini-exp"}, InputFiles(NumItems), 1..NumItems,
           {{2}}, 1)
  /\ round = 1 /\ NoCall

Spec == Init /\ [][Next]_vars

SpecBatch == InitBatch /\ [][Next]_vars

\* a batch with each batch_size that asyncio.Semaphore (line 315) accepts,
\* up to the number of inputs: main's line 407 takes any integer
InitSizes ==
  /\ Start({"gemini-1.5-pro"}, <<P1, P2>>, 0..2, {{1, 2}}, 1)
  /\ round = 1 /\ NoCall

SpecSizes == InitSizes /\ [][Next]_vars

\* three inputs, the first and the last the same file
WaiterFiles == <<P1, P2, P1>>

\* the steps of task t
TaskStep(t) ==
  \/ StartTask(t) \/ Enter(t) \/ ReadDone(t) \/ Generate(t) \/ Acquire(t)
  \/ Admit(t) \/ CallReturn(t) \/ CallError(t) \/ CallTimeout(t) \/ Wake(t)
  \/ WriteDone(t)

\* The event loop runs every callback that is ready, in turn, so a task that
\* can continue does; gather's callback runs too; and time advances.
Fairness ==
  /\ \A t \in 1..Len(WaiterFiles) : WF_vars(TaskStep(t))
  /\ WF_vars(BatchReturn)
  /\ WF_vars(\E d \in TickSteps : Tick(d))

\* a batch on the pro limiter with every task admitted by the semaphore at
\* once, so that the tasks meet at the limiter
InitWaiters ==
  /\ Start({"gemini-1.5-pro"}, WaiterFiles, {Len(WaiterFiles)}, {{2}}, 1)
  /\ round = 1 /\ NoCall

SpecFair == InitWaiters /\ [][Next]_vars /\ Fairness

(***************************************************************************)
(* parse_range(spec, total), as main calls it (lines 400-401), one         *)
(* iteration of its loop at a time.                                        *)
(***************************************************************************)
\* line 165: if not tok: continue
Skipped(tok) == tok = <<>>

\* line 167: tok.startswith('-')
IsExcluded(tok) == tok # <<>> /\ tok[1] = "-"

\* line 170: '-' in tok
IsRange(tok) == Find(tok, "-") # 0

\* line 171: tok.split('-', 1)
StartStr(tok) == SubSeq(tok, 1, Find(tok, "-") - 1)
EndStr(tok) == SubSeq(tok, Find(tok, "-") + 1, Len(tok))

\* line 172
StartOf(start_str) == IF start_str # <<>> THEN IntVal(start_str) ELSE 1

\* an end that defaults to the last index of a list counted from 0
EndOfZeroBased(end_str, tot) == IF end_str # <<>> THEN IntVal(end_str) ELSE tot - 1

\* line 173
EndOf(end_str, tot) == IF end_str # <<>> THEN IntVal(end_str) ELSE tot

\* the strings that lines 172-176 give to int(), in the order of evaluation
Literals(tok) ==
  IF IsRange(tok)
  THEN SelectSeq(<<StartStr(tok), EndStr(tok)>>, LAMBDA l : l # <<>>)
  ELSE <<tok>>

\* those of them for which int() raises ValueError
Rejected(tok) == SelectSeq(Literals(tok), LAMBDA l : ~IntOk(l))

\* lines 174 and 176: rng
Positions(tok, tot) ==
  IF IsRange(tok)
  THEN Max(1, StartOf(StartStr(tok))) .. Min(tot, EndOf(EndStr(tok), tot))
  ELSE {IntVal(tok)}

\* an iteration in which an exclusion takes away what has been included so far
ParseTokenInOrder ==
  /\ fn = "parse_range" /\ fn_pc = "parsing"
  /\ split_parts # <<>>
  /\ LET tok0 == sanitize(Head(split_parts))
         neg == IsExcluded(tok0)
         tok == IF neg THEN Tail(tok0) ELSE tok0
     IN IF Skipped(tok0)
        THEN /\ split_parts' = Tail(split_parts)
             /\ UNCHANGED <<fn_pc, include, exclude, raised, bad>>
        ELSE IF Rejected(tok) # <<>>
        THEN /\ fn_pc' = "raised"
             /\ raised' = "ValueError"
             /\ bad' = Head(Rejected(tok))
             /\ UNCHANGED <<split_parts, include, exclude>>
        ELSE /\ split_parts' = Tail(split_parts)
             /\ include' = IF neg THEN include \ Positions(tok, total)
                               ELSE include \cup Positions(tok, total)
             /\ exclude' = exclude
             /\ UNCHANGED <<fn_pc, raised, bad>>
  /\ UNCHANGED <<model_id, batch_size, input_files, victims, round, batch, pc,
                 running, sem_value, sem_waiters, text, attempt, timer, result,
                 error, calls, histVars, file_cache, resp_cache, level, admits,
                 out_files, log, faults, last_use, fn, spec, total, selection, selected,
                 limiter>>

\* lines 163-177: one iteration of the loop
ParseToken ==
  /\ fn = "parse_range" /\ fn_pc = "parsing"
  /\ split_parts # <<>>
  /\ LET tok0 == sanitize(Head(split_parts))
         neg == IsExcluded(tok0)
         tok == IF neg THEN Tail(tok0) ELSE tok0
     IN IF Skipped(tok0)
        THEN /\ split_parts' = Tail(split_parts)
             /\ UNCHANGED <<fn_pc, include, exclude, raised, bad>>
        ELSE IF Rejected(tok) # <<>>
        THEN /\ fn_pc' = "raised"
             /\ raised' = "ValueError"
             /\ bad' = Head(Rejected(tok))
             /\ UNCHANGED <<split_parts, include, exclude>>
        ELSE /\ split_parts' = Tail(split_parts)
             /\ include' = IF neg THEN include ELSE include \cup Positions(tok, total)
             /\ exclude' = IF neg THEN exclude \cup Positions(tok, total) ELSE exclude
             /\ UNCHANGED <<fn_pc, raised, bad>>
  /\ UNCHANGED <<model_id, batch_size, input_files, victims, round, batch, pc,
                 running, sem_value, sem_waiters, text, attempt, timer, result,
                 error, calls, histVars, file_cache, resp_cache, level, admits,
                 out_files, log, faults, last_use, fn, spec, total, selection, selected,
                 limiter>>

\* line 179: return sorted(include - exclude)
ParseReturn ==
  /\ fn = "parse_range" /\ fn_pc = "parsing"
  /\ split_parts = <<>>
  /\ selection' = Sorted(include \ exclude)
  /\ fn_pc' = "returned"
  /\ UNCHANGED <<model_id, batch_size, input_files, victims, round, batch, pc,
                 running, sem_value, sem_waiters, text, attempt, timer, result,
                 error, calls, histVars, file_cache, resp_cache, level, admits,
                 out_files, log, faults, last_use, fn, spec, total, split_parts, include,
                 exclude, selected, raised, bad, limiter>>

\* Python: inputs[i - 1] for a list of total elements raises IndexError
Indexable(i, tot) == 0 - tot <= i - 1 /\ i - 1 < tot

\* the position of inputs[i - 1]: a negative index counts from the end
Indexed(i, tot) == IF i - 1 < 0 THEN tot + i ELSE i

\* main, line 401: selected = [inputs[i - 1] for i in parse_range(...)]
Select ==
  /\ fn = "parse_range" /\ fn_pc = "returned"
  /\ IF \A k \in 1..Len(selection) : Indexable(selection[k], total)
     THEN /\ selected' = [k \in 1..Len(selection) |-> Indexed(selection[k], total)]
          /\ fn_pc' = "selected"
          /\ raised' = raised
     ELSE /\ fn_pc' = "raised"
          /\ raised' = "IndexError"
          /\ selected' = selected
  /\ UNCHANGED <<model_id, batch_size, input_files, victims, round, batch, pc,
                 running, sem_value, sem_waiters, text, attempt, timer, result,
                 error, calls, histVars, file_cache, resp_cache, level, admits,
                 out_files, log, faults, last_use, fn, spec, total, split_parts, include,
                 exclude, selection, bad, limiter>>

\* generate_with_retry, line 210, for a model_id it is called with
SelectLimiter ==
  /\ fn = "generate_with_retry" /\ fn_pc = "called"
  /\ limiter' = LimiterOf(model_id)
  /\ fn_pc' = "returned"
  /\ UNCHANGED <<model_id, batch_size, input_files, victims, round, batch, pc,
                 running, sem_value, sem_waiters, text, attempt, timer, result,
                 error, calls, histVars, file_cache, resp_cache, level, admits,
                 out_files, log, faults, last_use, fn, spec, total, split_parts, include,
                 exclude, selection, selected, raised, bad>>

NextFn ==
  \/ ParseToken
  \/ ParseReturn
  \/ Select
  \/ SelectLimiter

\* the characters of the specs
SpecChars == {"1", "2", "-", ",", " ", "x"}

\* the strings of at most n characters
Strings(n) == UNION {[1..k -> SpecChars] : k \in 0..n}

\* the model ids generate_with_retry is called with: those of the registry,
\* one with neither marker and one with both
ModelIds == DOMAIN default_models \cup {"gemini-exp", "gemini-pro-flash"}

\* no batch runs
NoBatch(models) == Start(models, <<>>, {1}, {{}}, 0) /\ round = 1

InitFn ==
  \/ /\ NoBatch({"gemini-1.5-pro"})
     /\ last_use = NoUse
     /\ fn = "parse_range" /\ fn_pc = "parsing"
     /\ spec \in Strings(MaxSpecLen)
     /\ total \in 0..MaxTotal
     /\ split_parts = Split(spec, ",")
     /\ include = {} /\ exclude = {}
     /\ selection = <<>> /\ selected = <<>>
     /\ raised = NoError /\ bad = <<>>
     /\ limiter = "none"
  \/ /\ NoBatch(ModelIds)
     /\ last_use = NoUse
     /\ fn = "generate_with_retry" /\ fn_pc = "called"
     /\ spec = <<>> /\ total = 0 /\ split_parts = <<>>
     /\ include = {} /\ exclude = {}
     /\ selection = <<>> /\ selected = <<>>
     /\ raised = NoError /\ bad = <<>>
     /\ limiter = "none"

SpecFn == InitFn /\ [][NextFn]_vars

(***************************************************************************)
(* A session: main's loop, lines 384-413, runs one batch after another in  *)
(* the same process, so both caches and the limiters outlive a batch.      *)
(* Here the ages of the cache entries are tracked: time passes while a     *)
(* remote call is under way and while the user answers main's questions.   *)
(* The user gives the same answers for every batch.                        *)
(***************************************************************************)
MaxRounds == 2

\* how long a remote call can be under way before something else happens
CallTimes == {REQUEST_TIMEOUT \div 2}

\* how long the user takes between two batches
Pauses == {1, RESPONSE_CACHE_TTL - REQUEST_TIMEOUT \div 2, RESPONSE_CACHE_TTL}

\* d units of time pass, seen by the limiters
Drained(d) ==
  /\ level' = [c \in Classes |-> Leak(level[c], c, d)]
  /\ admits' = [c \in Classes |->
                  SelectSeq([i \in 1..Len(admits[c]) |->
                               [admits[c][i] EXCEPT !.age = @ + d]],
                            LAMBDA a : a.age < RATE_LIMITS[c].time_period)]

\* d units of time pass, seen by the caches
Aged(d) ==
  /\ file_cache' = CacheAge(file_cache, FILE_CACHE_TTL, d)
  /\ resp_cache' = CacheAge(resp_cache, RESPONSE_CACHE_TTL, d)

\* lines 215-222: d units of time pass while remote calls are under way and
\* nothing becomes due
Elapse(d) ==
  /\ batch = "running" /\ running = 0 /\ AllStarted
  /\ \E t \in Tasks : pc[t] = "calling"
  /\ \A e \in Events : d < e
  /\ timer' = [t \in Tasks |->
                 IF pc[t] = "sleeping" THEN timer[t] - d
                 ELSE IF pc[t] = "calling" THEN timer[t] + d
                 ELSE timer[t]]
  /\ Drained(d)
  /\ Aged(d)
  /\ UNCHANGED <<cfgVars, histVars, batch, pc, running, sem_value, sem_waiters, text,
                 attempt, result, error, calls, out_files, log, faults>>

\* read_file(base), line 387, d units of time after the last batch
PromptRead(d) ==
  LET aged == CacheAge(file_cache, FILE_CACHE_TTL, d)
  IN IF CacheContains(aged, FILE_CACHE_TTL, PromptPath)
     THEN CacheTouch(aged, PromptPath)
     ELSE CachePut(aged, FILE_CACHE_MAXSIZE, FILE_CACHE_TTL, PromptPath,
                   Disk(PromptPath))

\* main, lines 384-410: the user asks for another batch, and run_batch
\* starts d units of time after the last one returned
Again(d) ==
  /\ batch = "returned"
  /\ round < MaxRounds
  /\ round' = round + 1
  /\ file_cache' = PromptRead(d)
  /\ resp_cache' = CacheAge(resp_cache, RESPONSE_CACHE_TTL, d)
  /\ Drained(d)
  /\ batch' = "running"
  /\ pc' = [t \in Tasks |-> "created"]
  /\ running' = 0
  /\ sem_value' = batch_size
  /\ sem_waiters' = <<>>
  /\ text' = [t \in Tasks |-> None]
  /\ attempt' = [t \in Tasks |-> 0]
  /\ timer' = [t \in Tasks |-> 0]
  /\ result' = [t \in Tasks |-> None]
  /\ error' = [t \in Tasks |-> NoError]
  /\ calls' = [t \in Tasks |-> 0]
  /\ outcomes' = [t \in Tasks |-> <<>>]
  /\ seen' = [t \in Tasks |-> {}]
  /\ log' = [t \in Tasks |-> <<>>]
  /\ UNCHANGED <<model_id, batch_size, input_files, victims, fnVars, out_files,
                 faults>>

NextSession ==
  \/ \E t \in Tasks : StartTask(t)
  \/ \E t \in Tasks : Enter(t)
  \/ \E t \in Tasks : ReadDone(t)
  \/ \E t \in Tasks : Generate(t)
  \/ \E t \in Tasks : Acquire(t)
  \/ \E t \in Tasks : CallReturn(t)
  \/ \E t \in Tasks : WriteDone(t)
  \/ BatchReturn
  \/ \E d \in CallTimes : Elapse(d)
  \/ \E d \in Pauses : Again(d)

InitSession ==
  /\ Start({"gemini-1.5-flash"}, <<P1, P2>>, {1, 2}, {{}}, 0)
  /\ round = 1
  /\ NoCall

SpecSession == InitSession /\ [][NextSession]_vars

(***************************************************************************)
(* The caches on their own: read_file called on one path after another     *)
(* (lines 106-116), or generate_with_retry on one request after another,   *)
(* each answered at once (lines 205-207 and 224-226), until the cache has  *)
(* taken MaxOver keys more than it can hold.  Once the cache is full, the  *)
(* first MaxLookups keys may be asked for again, and time may pass.        *)
(***************************************************************************)
MaxOver == 2
MaxLookups == 2

CacheJobs == {"read_file", "generate_with_retry"}

\* the k-th file of a folder and the text of the k-th request
PathOf(k) == [dir |-> "in", name |-> ToString(k)]
Content(k) == <<"c", k>>

\* the k-th key of a job's cache and the value stored under it
KeyOf(job, k) ==
  IF job = "read_file" THEN PathOf(k)
  ELSE Fingerprint("gemini-1.5-pro", Content(k), SystemInstruction, Temperature)
ValueOf(job, k) == IF job = "read_file" THEN Disk(PathOf(k)) ELSE <<"r", k>>

CacheOf(job) == IF job = "read_file" THEN file_cache ELSE resp_cache
MaxSizeOf(job) == IF job = "read_file" THEN FILE_CACHE_MAXSIZE ELSE RESP_CACHE_MAXSIZE
TtlOf(job) == IF job = "read_file" THEN FILE_CACHE_TTL ELSE RESPONSE_CACHE_TTL

\* the number of the next key that has not been used yet
NewNumber == last_use.used + 1

\* the keys a call may come with
Askable(job) ==
  {k \in {NewNumber} : k <= MaxSizeOf(job) + MaxOver}
  \cup {k \in 1..MaxLookups : Len(CacheOf(job)) = MaxSizeOf(job)}

\* read_file, lines 106-116, or generate_with_retry, lines 205-207 and
\* 224-226, called with the k-th key
Use(k) ==
  /\ fn \in CacheJobs /\ fn_pc = "caching"
  /\ LET cache == CacheOf(fn)
         after == IF CacheContains(cache, TtlOf(fn), KeyOf(fn, k))
                  THEN CacheTouch(cache, KeyOf(fn, k))
                  ELSE CachePut(cache, MaxSizeOf(fn), TtlOf(fn), KeyOf(fn, k),
                                ValueOf(fn, k))
     IN /\ last_use' = [op |-> IF CacheContains(cache, TtlOf(fn), KeyOf(fn, k))
                               THEN "hit" ELSE "miss",
                        key |-> k,
                        used |-> Max(k, last_use.used)]
        /\ file_cache' = IF fn = "read_file" THEN after ELSE file_cache
        /\ resp_cache' = IF fn = "read_file" THEN resp_cache ELSE after
  /\ UNCHANGED <<model_id, batch_size, input_files, victims, round, batch, pc,
                 running, sem_value, sem_waiters, text, attempt, timer, result,
                 error, calls, histVars, level, admits, out_files, log, faults,
                 fn, fn_pc, spec, total, split_parts, include, exclude, selection,
                 selected, raised, bad, limiter>>

\* d units of time pass between two calls, the cache being full
Wait(d) ==
  /\ fn \in CacheJobs /\ fn_pc = "caching"
  /\ Len(CacheOf(fn)) = MaxSizeOf(fn)
  /\ CacheExpire(CacheOf(fn), TtlOf(fn)) # <<>>
  /\ Aged(d)
  /\ last_use' = [op |-> "wait", key |-> 0, used |-> last_use.used]
  /\ UNCHANGED <<model_id, batch_size, input_files, victims, round, batch, pc,
                 running, sem_value, sem_waiters, text, attempt, timer, result,
                 error, calls, histVars, level, admits, out_files, log, faults,
                 fn, fn_pc, spec, total, split_parts, include, exclude, selection,
                 selected, raised, bad, limiter>>

\* half a TTL
Waits == {RESPONSE_CACHE_TTL \div 2}

NextCache ==
  \/ \E k \in Askable(fn) : Use(k)
  \/ \E d \in Waits : Wait(d)

InitCache ==
  /\ NoBatch({"gemini-1.5-pro"})
  /\ last_use = NoUse
  /\ fn \in CacheJobs /\ fn_pc = "caching"
  /\ spec = <<>> /\ total = 0 /\ split_parts = <<>>
  /\ include = {} /\ exclude = {}
  /\ selection = <<>> /\ selected = <<>>
  /\ raised = NoError /\ bad = <<>>
  /\ limiter = "none"

SpecCache == InitCache /\ [][NextCache]_vars

(***************************************************************************)
(* The retry controller, generate_with_retry.                              *)
(***************************************************************************)
Last(s) == s[Len(s)]

\* an attempt that ended with APIError 429 or 503
Transient(o) == o.kind = "api" /\ o.code \in {429, 503}

\* an attempt that ended with another APIError
Fatal(o) == o.kind = "api" /\ o.code \notin {429, 503}

\* task t's call of generate_with_retry has returned or raised
CallOver(t) == pc[t] \in {"write_wait", "done"}

\* C1: a call all of whose attempts fail with 429 or 503 makes exactly 3
\* attempts, no call ever makes a 4th, and the call ends with RuntimeError
\* and without a result.
C1Exhaustion ==
  \A t \in Tasks :
    /\ calls[t] <= 3
    /\ ( /\ CallOver(t)
         /\ calls[t] >= 1
         /\ Len(outcomes[t]) = calls[t]
         /\ \A i \in 1..Len(outcomes[t]) : Transient(outcomes[t][i]) )
       => /\ calls[t] = 3
          /\ pc[t] = "done"
          /\ error[t] = "RuntimeError"
          /\ result[t] = None
    /\ error[t] = "RuntimeError"
       => /\ Len(outcomes[t]) = 3
          /\ \A i \in 1..3 : Transient(outcomes[t][i])

\* a call has failed with 429 or 503 three times and raised RuntimeError
C1Witness ==
  \E t \in Tasks :
    /\ error[t] = "RuntimeError"
    /\ calls[t] = 3
    /\ \A i \in 1..Len(outcomes[t]) : Transient(outcomes[t][i])

\* the text a response stands for
ExpectedText(resp) ==
  IF resp = RespFenced THEN <<BT, BT, BT, "j", NL, "x", NL, BT, BT, BT>>
  ELSE <<"o", "k">>

\* C2: when an attempt of a call succeeds, the attempts before it have all
\* failed with 429 or 503, it is the last attempt (attempt k+1 after k
\* failures), and the call returns the text of its response.
C2Recovery ==
  \A t \in Tasks :
    (outcomes[t] # <<>> /\ Last(outcomes[t]).kind = "ok")
    => /\ Len(outcomes[t]) = calls[t]
       /\ \A i \in 1..(Len(outcomes[t]) - 1) : Transient(outcomes[t][i])
       /\ CallOver(t)
       /\ result[t] = ExpectedText(Last(outcomes[t]).resp)
       /\ error[t] \notin {"RuntimeError", "APIError", "TimeoutError"}

\* calls have succeeded at the second and at the third attempt
C2Witness ==
  /\ \E t \in Tasks :
       /\ Len(outcomes[t]) = 3 /\ Last(outcomes[t]).kind = "ok"
       /\ result[t] = <<"o", "k">>
  /\ \E t \in Tasks : Len(outcomes[t]) = 2 /\ Last(outcomes[t]).kind = "ok"

\* C3: the step in which an attempt fails with an APIError other than 429
\* and 503 ends the task with that APIError, starts no wait and leaves the
\* response cache as it was; no attempt follows a failure of this kind.
C3Fatal ==
  [][\A t \in Tasks :
       /\ ( /\ Len(outcomes'[t]) > Len(outcomes[t])
            /\ Fatal(Last(outcomes'[t])) )
          => /\ pc'[t] = "done"
             /\ error'[t] = "APIError"
             /\ timer'[t] = 0
             /\ result'[t] = None
             /\ resp_cache' = resp_cache
       /\ (outcomes[t] # <<>> /\ Fatal(Last(outcomes[t])))
          => /\ outcomes'[t] = outcomes[t]
             /\ calls'[t] = calls[t]
             /\ pc'[t] = "done"
             /\ error'[t] = "APIError"]_vars

\* a second attempt has failed with APIError 500
C3Witness ==
  \E t \in Tasks :
    /\ Len(outcomes[t]) = 2 /\ Fatal(Last(outcomes[t]))
    /\ error[t] = "APIError"

\* C4: no attempt lasts longer than REQUEST_TIMEOUT, and an attempt that
\* times out before the third is followed by a wait and another attempt.
C4TimeoutRetried ==
  \A t \in Tasks :
    /\ pc[t] = "calling" => timer[t] <= REQUEST_TIMEOUT
    /\ ( /\ outcomes[t] # <<>>
         /\ Last(outcomes[t]).kind = "timeout"
         /\ Len(outcomes[t]) < 3 )
       => pc[t] \in {"sleeping", "acquire", "lim_wait", "calling"}

(***************************************************************************)
(* The response cache.                                                     *)
(***************************************************************************)
\* C5: of two tasks whose requests have the same fingerprint and have both
\* got their text, one has made no remote call.
C5OneRemoteCall ==
  \A t, u \in Tasks :
    ( /\ t < u
      /\ text[t] # None /\ Key(t) = Key(u)
      /\ result[t] # None /\ result[u] # None )
    => (calls[t] = 0 \/ calls[u] = 0)

\* C6: a call that starts after calls with its fingerprint have returned
\* takes no permit, makes no remote call and returns the text that each of
\* them returned.
C6ShortCircuit ==
  \A t \in Tasks :
    \A x \in seen[t] : calls[t] = 0 /\ pc[t] # "acquire" /\ result[t] = x

(***************************************************************************)
(* The rate limiter.                                                       *)
(***************************************************************************)
\* C7: the attempts admitted to a class in the last time_period (60 s) are
\* at most max_rate: 2 for pro, 10 for flash.
C7WindowBound ==
  /\ Len(admits["pro"]) <= 2
  /\ Len(admits["flash"]) <= 10

\* the bucket of task t's class has room for one more permit
Room == level[Class] + RATE_LIMITS[Class].time_period
          <= RATE_LIMITS[Class].max_rate * RATE_LIMITS[Class].time_period

\* C8: a call that finds no room in its class's bucket is suspended; a
\* suspended call stays suspended or goes on to its remote call, which it
\* does only when the bucket has room; no step of the limiter ends a task or
\* gives it an error, and the bucket is never filled beyond max_rate permits.
C8DelaysNeverRejects ==
  [][\A t \in Tasks :
       /\ (pc[t] = "acquire" /\ ~Room) => pc'[t] \in {"acquire", "lim_wait"}
       /\ pc[t] \in {"acquire", "lim_wait"}
          => /\ pc'[t] \in {"acquire", "lim_wait", "calling"}
             /\ error'[t] = NoError
       /\ (pc[t] # "calling" /\ pc'[t] = "calling")
          => /\ pc[t] \in {"acquire", "lim_wait"}
             /\ Room
             /\ calls'[t] = calls[t] + 1
             /\ level'[Class] <= RATE_LIMITS[Class].max_rate
                                   * RATE_LIMITS[Class].time_period]_vars

\* a third call to pro has been suspended and later admitted, while the two
\* admitted before it are less than time_period old
C8Witness ==
  \E t \in Tasks :
    /\ pc[t] = "calling"
    /\ Class = "pro"
    /\ Len(admits["pro"]) = 3
    /\ admits["pro"][3] = [age |-> 0, waited |-> TRUE]

(***************************************************************************)
(* The dispatcher, run_batch.                                              *)
(***************************************************************************)
\* the tasks between acquiring and releasing the semaphore
Holders == {t \in Tasks : pc[t] \notin {"created", "sem_wait", "done"}}

\* the tasks in the rate limiter or in a remote call
InCallPath == {t \in Tasks : pc[t] \in {"acquire", "lim_wait", "calling", "sleeping"}}

\* C9: there is a task for each item, and at most batch_size of them are
\* between acquiring and releasing the semaphore, so at most batch_size are
\* in the rate limiter or a remote call; the semaphore counts the free slots.
C9BoundedConcurrency ==
  /\ Tasks = 1..Len(input_files)
  /\ Cardinality(Holders) <= batch_size
  /\ Cardinality(InCallPath) <= batch_size
  /\ InCallPath \subseteq Holders
  /\ sem_value = batch_size - Cardinality(Holders)
  /\ \A i \in 1..Len(sem_waiters) : pc[sem_waiters[i]] = "sem_wait"

\* batch_size tasks are in the call path while another task waits for a slot
C9Witness ==
  /\ batch_size >= 2
  /\ Cardinality(InCallPath) = batch_size
  /\ \E t \in Tasks : pc[t] = "sem_wait"

\* the error entries of task t's log that carry its task number
Failures(t) == {i \in 1..Len(log[t]) : log[t][i].level = "error" /\ log[t][i].task = t}

Wrote(t) == \E i \in 1..Len(log[t]) : log[t][i] = LogRec("info", t, "Wrote")

\* C10: no task is cancelled and run_batch never raises; a task that fails
\* has one error entry with its number in the log and has written nothing; a
\* task that no fault hits, run with a known model, has written its output
\* when run_batch returns; and the step in which a task fails changes neither
\* the error nor the result of another task, nor where it stands, but for the
\* next waiter getting the failed task's slot of the semaphore.
C10Isolation ==
  [][/\ batch' # "raised"
     /\ \A t \in Tasks :
          /\ error'[t] # "CancelledError"
          /\ Cardinality(Failures(t))' = (IF error'[t] = NoError THEN 0 ELSE 1)
          /\ error'[t] # NoError => pc'[t] = "done" /\ ~Wrote(t)'
          /\ ( /\ batch' = "returned"
               /\ t \notin victims
               /\ model_id \in DOMAIN default_models )
             => error'[t] = NoError /\ Wrote(t)'
          /\ (error[t] = NoError /\ error'[t] # NoError)
             => \A u \in Tasks \ {t} :
                  /\ error'[u] = error[u]
                  /\ result'[u] = result[u]
                  /\ text'[u] = text[u]
                  /\ \/ pc'[u] = pc[u]
                     \/ pc[u] = "sem_wait" /\ pc'[u] = "enter"]_vars

\* run_batch has returned after the second task failed, and the others wrote
C10Witness ==
  /\ batch = "returned"
  /\ Len(input_files) >= 3
  /\ error[2] # NoError
  /\ \A u \in Tasks \ {2} : error[u] = NoError /\ Wrote(u)

\* C11: when run_batch has returned, every task has finished, having written
\* its output or logged its failure; none is running, none waits for a slot
\* of the semaphore, for a permit, for a call or for a sleep to end.
C11Completion ==
  batch = "returned"
  => /\ running = 0
     /\ sem_waiters = <<>>
     /\ \A t \in Tasks :
          /\ pc[t] = "done"
          /\ Wrote(t) \/ Failures(t) # {}
          /\ ~(Wrote(t) /\ Failures(t) # {})

\* run_batch has returned from a batch with a written and a failed item
C11Witness ==
  /\ batch = "returned"
  /\ \E t \in Tasks : Wrote(t)
  /\ \E t \in Tasks : Failures(t) # {}

(***************************************************************************)
(* The output directory.                                                   *)
(***************************************************************************)
\* the files of the output directory
Outputs == {n \in Names : out_files[n] # None}

\* C14: when run_batch has returned from a batch without a failure, the
\* output directory holds as many files as there were distinct inputs, and
\* the file named after each input holds that input's cleaned result.
C14OneOutputPerInput ==
  (batch = "returned" /\ \A t \in Tasks : error[t] = NoError)
  => /\ Cardinality(Outputs) = Cardinality({input_files[t] : t \in Tasks})
     /\ \A t \in Tasks : out_files[input_files[t].name] = Clean(result[t])

\* the failures of the steps before the write
BeforeWrite ==
  {"FileNotFoundError", "ValueError", "APIError", "RuntimeError", "TimeoutError"}

\* C15: a task that has failed before the write has one error entry in the
\* log, which carries its task number; and when every task has failed before
\* the write, the output directory is empty.
C15FailedNoOutput ==
  /\ \A t \in Tasks :
       error[t] \in BeforeWrite
       => /\ Cardinality({i \in 1..Len(log[t]) : log[t][i].level = "error"}) = 1
          /\ Cardinality(Failures(t)) = 1
  /\ (\A t \in Tasks : error[t] \in BeforeWrite) => Outputs = {}

\* the text between the fences of a fenced text, the text itself otherwise
Body(txt) ==
  IF txt = <<BT, BT, BT, "j", NL, "x", NL, BT, BT, BT>> THEN <<"x">> ELSE txt

\* C19: the step in which a task writes its output writes the body of a
\* fenced result, without fence, language tag or any other character, and
\* writes a result without fences as it is.
C19FenceStripped ==
  [][\A t \in Tasks :
       (~Wrote(t) /\ Wrote(t)')
       => out_files'[input_files[t].name] = Body(result[t])]_vars

(***************************************************************************)
(* The range selector, parse_range.                                        *)
(***************************************************************************)
\* C12: for a list of at least one file, the list that parse_range returns
\* is strictly increasing, lies within 1..total and is include minus
\* exclude, and main's indexing of the input list with it never fails.
C12RangeResult ==
  (fn = "parse_range" /\ total >= 1)
  => /\ raised # "IndexError"
     /\ fn_pc \in {"returned", "selected"}
        => /\ \A k \in 1..Len(selection) : selection[k] \in 1..total
           /\ \A k \in 1..(Len(selection) - 1) : selection[k] < selection[k + 1]
           /\ Range(selection) = include \ exclude

\* the value of a digit of the specs
Val == ("1" :> 1) @@ ("2" :> 2)

\* the token that the next iteration of the loop takes is tok
Takes(tok) ==
  fn = "parse_range" /\ fn_pc = "parsing" /\ split_parts # <<>> /\ Head(split_parts) = tok

Lower(a) == IF a < 1 THEN 1 ELSE a
Upper(b) == IF b > total THEN total ELSE b

\* what the ranges with one side omitted add, whatever a dash before a
\* single integer means
OpenRanges ==
  \A d \in DOMAIN Val :
    /\ Takes(<<d, "-">>)
       => include' = include \cup (Lower(Val[d]) .. total) /\ exclude' = exclude
    /\ Takes(<<"-", d, "-">>)
       => exclude' = exclude \cup (Lower(Val[d]) .. total) /\ include' = include
    /\ Takes(<<"-", "-", d>>)
       => exclude' = exclude \cup (1 .. Upper(Val[d])) /\ include' = include
    /\ Takes(<<"-", "-">>)
       => exclude' = exclude \cup (1 .. total) /\ include' = include

\* C13, as claimed: an omitted start is 1 and an omitted end is total, for
\* included and excluded ranges alike; the included range with omitted
\* start and end e, written -e, adds the positions 1..min(e, total).
C13OpenRangesClaimed ==
  [][/\ OpenRanges
     /\ \A d \in DOMAIN Val :
          Takes(<<"-", d>>)
          => include' = include \cup (1 .. Upper(Val[d])) /\ exclude' = exclude]_vars

\* C13, amended: an omitted end is total for included and excluded ranges
\* alike and an omitted start is 1 for excluded ranges; an included range
\* cannot omit its start, since a token that starts with a dash is an
\* exclusion: -e excludes the single position e.
C13OpenRanges ==
  [][/\ OpenRanges
     /\ \A d \in DOMAIN Val :
          Takes(<<"-", d>>)
          => exclude' = exclude \cup {Val[d]} /\ include' = include]_vars

\* "1-,-2" has been parsed for a list of two files
C13Witness ==
  /\ fn_pc = "selected"
  /\ spec = <<"1", "-", ",", "-", "2">>
  /\ total = 2
  /\ include = {1, 2} /\ exclude = {2}
  /\ selection = <<1>>

\* s is a part of t
PartOf(s, t) == \E i \in 1..(Len(t) + 1) : \E j \in (i - 1)..Len(t) : s = SubSeq(t, i, j)

C18ProElseFlash ==
  (fn = "generate_with_retry" /\ fn_pc = "returned")
  => limiter = (IF Contains(model_id, "pro") THEN "pro" ELSE "flash")

\* the class of each model id
ClassOf ==
  [m \in ModelIds |->
     IF m \in {"gemini-1.5-pro", "gemini-exp"} THEN "pro" ELSE "flash"]

\* C18, amended: generate_with_retry takes one limiter for each model id:
\* the flash limiter (10 per 60 s) for an id that contains "flash" and the
\* pro limiter (2 per 60 s) for any other; so the four flash ids of the
\* registry and an id with both markers get the flash limiter, and
\* gemini-1.5-pro and an id with neither marker get the pro limiter.
C18ClassMapping ==
  (fn = "generate_with_retry" /\ fn_pc = "returned")
  => /\ limiter = ClassOf[model_id]
     /\ RATE_LIMITS[limiter].max_rate = (IF limiter = "pro" THEN 2 ELSE 10)
     /\ RATE_LIMITS[limiter].time_period = 600

\* the limiter has been selected for an id with neither marker
C18Witness ==
  /\ fn = "generate_with_retry" /\ fn_pc = "returned"
  /\ model_id = "gemini-exp"
  /\ limiter = "pro"

(***************************************************************************)
(* The caches over a session.                                              *)
(***************************************************************************)
\* the cache holds v under k, inserted less than ttl ago
FreshValue(cache, ttl, k, v) ==
  \E i \in 1..Len(cache) :
    cache[i].key = k /\ cache[i].value = v /\ cache[i].age < ttl

\* whatever the cache holds under k was inserted ttl ago or earlier
Stale(cache, ttl, k) ==
  \A i \in 1..Len(cache) : cache[i].key = k => cache[i].age >= ttl

\* get(k): the value, or Absent
Absent == <<"Absent">>
Get(cache, ttl, k) ==
  IF CacheContains(cache, ttl, k) THEN CacheValue(cache, k) ELSE Absent

\* C16: for both caches, a lookup right after an insertion returns the
\* inserted value; a lookup that returns a value returns one that was
\* inserted less than the TTL ago; and when whatever is stored under the key
\* is as old as the TTL or older, read_file reads the file again and
\* generate_with_retry goes on to a new remote call.
C16Freshness ==
  [][\A t \in Tasks :
       /\ (pc[t] = "read_wait" /\ pc'[t] = "build")
          => Get(file_cache', FILE_CACHE_TTL, input_files[t]) = text'[t]
       /\ (pc[t] = "calling" /\ pc'[t] = "write_wait")
          => Get(resp_cache', RESPONSE_CACHE_TTL, Key(t)) = result'[t]
       /\ (pc[t] = "enter" /\ pc'[t] = "build")
          => FreshValue(file_cache, FILE_CACHE_TTL, input_files[t], text'[t])
       /\ (pc[t] = "build" /\ pc'[t] = "write_wait")
          => FreshValue(resp_cache, RESPONSE_CACHE_TTL, Key(t), result'[t])
       /\ (pc[t] = "enter" /\ pc'[t] # "enter"
             /\ Stale(file_cache, FILE_CACHE_TTL, input_files[t]))
          => pc'[t] = "read_wait"
       /\ (pc[t] = "build" /\ pc'[t] # "build"
             /\ Stale(resp_cache, RESPONSE_CACHE_TTL, Key(t)))
          => pc'[t] = "acquire" /\ attempt'[t] = 1
    ]_vars

\* in a later batch a remote call is under way for a fingerprint whose
\* response is still stored but older than the TTL, after the file at a path
\* whose content is still stored but older than the TTL was read again
C16Witness ==
  /\ round > 1
  /\ \E t \in Tasks :
       /\ pc[t] = "calling"
       /\ calls[t] = 1
       /\ \E i \in 1..Len(resp_cache) :
            resp_cache[i].key = Key(t) /\ resp_cache[i].age >= RESPONSE_CACHE_TTL
       /\ FreshValue(file_cache, FILE_CACHE_TTL, input_files[t], text[t])

(***************************************************************************)
(* The rate limiter under fair scheduling.                                 *)
(***************************************************************************)
\* the tasks that wait for a permit
Waiters == {t \in Tasks : pc[t] = "lim_wait"}

\* C17: under fair scheduling and advancing time, every task that waits for
\* a permit of its class is eventually admitted, whoever else waits for one
\* of the same class and whoever the permits that become available go to.
C17NoStarvation ==
  \A t \in 1..Len(WaiterFiles) : (pc[t] = "lim_wait") ~> (pc[t] = "calling")

\* two tasks were waiting for a permit of the same class; one of them, on
\* its second attempt, has just been admitted and the other still waits
C17Witness ==
  \E t \in Tasks :
    /\ pc[t] = "calling"
    /\ calls[t] = 2
    /\ timer[t] = 0
    /\ Last(admits[Class]).waited
    /\ Last(admits[Class]).age = 0
    /\ Waiters # {}

(***************************************************************************)
(* The order of a batch.                                                   *)
(***************************************************************************)
\* task t has been admitted through the semaphore of line 262
Entered(t) == pc[t] \notin {"created", "sem_wait"}

\* C21: the tasks of a batch are admitted through the semaphore in input
\* order: whenever a task has been admitted, so has every task before it in
\* the input, and the tasks that wait for a slot queue in input order.  (The
\* order in which they finish is free: see the witness.)
C21StartOrder ==
  /\ \A i, j \in Tasks : (i < j /\ Entered(j)) => Entered(i)
  /\ \A a, b \in 1..Len(sem_waiters) : a < b => sem_waiters[a] < sem_waiters[b]

\* with two slots, the second task has finished with its output written
\* before the first, and its slot has gone to the third, which had to wait
C21Witness ==
  /\ batch_size = 2
  /\ Len(input_files) >= 3
  /\ pc[2] = "done" /\ error[2] = NoError
  /\ pc[1] \notin {"done", "created", "sem_wait"}
  /\ pc[3] = "enter"

(***************************************************************************)
(* The capacity of the caches.                                             *)
(***************************************************************************)
\* the entries of a cache that are stored under another key than k and,
\* when ttl is given as their limit, are younger than ttl
Others(cache, k, ttl) == SelectSeq(cache, LAMBDA e : e.key # k /\ e.age < ttl)

\* C22: the file cache never holds more than 128 entries and the response
\* cache never more than 256.  A cache lists its entries from the least to
\* the most recently used: a lookup that finds its key moves the entry to
\* the end and leaves the others as they are, and an insertion drops the
\* expired entries, then, if 128 (256) others remain, the first of them,
\* which is the least recently used, and puts the new entry at the end.
C22Capacity ==
  [][/\ Len(file_cache') <= 128
     /\ Len(resp_cache') <= 256
     /\ (fn \in CacheJobs /\ last_use' # last_use /\ last_use'.op # "wait")
        => LET cache == CacheOf(fn)
               size == IF fn = "read_file" THEN 128 ELSE 256
               k == KeyOf(fn, last_use'.key)
               entry == [key |-> k, value |-> ValueOf(fn, last_use'.key), age |-> 0]
               live == Others(cache, k, TtlOf(fn))
           IN IF last_use'.op = "hit"
              THEN /\ Len(CacheOf(fn)') = Len(cache)
                   /\ Last(CacheOf(fn)').key = k
                   /\ Last(CacheOf(fn)').age < TtlOf(fn)
                   /\ Others(CacheOf(fn)', k, TtlOf(fn) + 1) = Others(cache, k, TtlOf(fn) + 1)
              ELSE CacheOf(fn)' =
                     (IF Len(live) >= size THEN Tail(live) ELSE live) \o <<entry>>
    ]_vars

\* the file cache was full when its second key was looked up; since then
\* two new files have been read, the cache is full, the first key is gone and
\* the second is still there, next to last
C22Witness ==
  /\ fn = "read_file"
  /\ Len(file_cache) = FILE_CACHE_MAXSIZE
  /\ last_use.op = "miss" /\ last_use.key = last_use.used
  /\ ~CacheHas(file_cache, PathOf(1))
  /\ CacheHas(file_cache, PathOf(2))
  /\ file_cache[Len(file_cache) - 2].key = PathOf(2)
  /\ \A i \in 1..Len(file_cache) : file_cache[i].age = 0

(***************************************************************************)
(* The backoff of generate_with_retry.  Times are in tenths of a second.   *)
(***************************************************************************)
\* C23: the wait that starts after the k-th failure of a call with 429 or
\* 503 lasts at least 2.0 * k s and less than 2.0 * k + 0.5 s; so it is
\* shorter than any wait after the next failure can be, and the waits of one
\* call grow from one attempt to the next.
C23DelayBounds ==
  [][\A t \in Tasks :
       (pc[t] # "sleeping" /\ pc'[t] = "sleeping")
       => LET k == Len(outcomes'[t])
          IN /\ k >= 1
             /\ \A i \in 1..k : Transient(outcomes'[t][i])
             /\ timer'[t] >= 20 * k
             /\ timer'[t] < 20 * k + 5
             /\ timer'[t] < 20 * (k + 1)
    ]_vars

\* a task starts the wait after its second failure, with the larger jitter
C23Witness ==
  \E t \in Tasks :
    /\ pc[t] = "sleeping"
    /\ Len(outcomes[t]) = 2
    /\ timer[t] = 2 * BASE_RETRY_DELAY + JITTER_MAX - 1

\* C24: a task waits in a backoff only when a further attempt of its call
\* is to follow, that is after fewer than 3 attempts; after a 3rd failure
\* with 429 or 503 the call raises without a wait.
C24WaitsBetweenAttempts ==
  \A t \in Tasks : pc[t] = "sleeping" => calls[t] < 3

(***************************************************************************)
(* Termination of a batch.                                                 *)
(***************************************************************************)
\* C25: run_batch can always go on to its return: no task waits for a slot
\* of the semaphore unless some task holds one, which it gives up when it
\* ends, so no task waits for admission for ever.
C25NoWorkerStuck ==
  \A t \in Tasks : pc[t] = "sem_wait" => Holders # {}

(***************************************************************************)
(* Permits and attempts.                                                   *)
(***************************************************************************)
\* C26: every attempt of a remote call, a retry included, starts in the
\* step in which the task takes one permit of the model's class, coming from
\* the acquisition of this attempt; nothing else takes a permit or counts as
\* an attempt; so a call of 3 attempts has taken 3 permits.
C26PermitPerAttempt ==
  [][\A t \in Tasks :
       LET starts == pc[t] # "calling" /\ pc'[t] = "calling"
           one == RATE_LIMITS[LimiterOf(model_id)].time_period
       IN /\ starts <=> calls'[t] = calls[t] + 1
          /\ calls'[t] # calls[t] => starts
          /\ starts
             => /\ pc[t] \in {"acquire", "lim_wait"}
                /\ attempt[t] = calls'[t]
                /\ level'[LimiterOf(model_id)] = level[LimiterOf(model_id)] + one
                /\ Len(admits'[LimiterOf(model_id)]) = Len(admits[LimiterOf(model_id)]) + 1
                /\ \A u \in Tasks \ {t} : calls'[u] = calls[u]
          /\ (\A u \in Tasks : ~(pc[u] # "calling" /\ pc'[u] = "calling"))
             => /\ level'[LimiterOf(model_id)] <= level[LimiterOf(model_id)]
                /\ Len(admits'[LimiterOf(model_id)]) <= Len(admits[LimiterOf(model_id)])
    ]_vars

\* a task is in the 3rd attempt of its call and no other task has made an
\* attempt: 3 permits of its class have been taken within the last minute
C26Witness ==
  \E t \in Tasks :
    /\ pc[t] = "calling"
    /\ calls[t] = 3
    /\ \A u \in Tasks \ {t} : calls[u] = 0
    /\ Len(admits[Class]) = 3

(***************************************************************************)
(* What the response cache holds.                                          *)
(***************************************************************************)
\* task u has made a successful remote call for fingerprint k that returned v
Succeeded(u, k, v) ==
  /\ text[u] # None
  /\ k = <<model_id, <<text[u]>>, SystemInstruction, Temperature>>
  /\ \E i \in 1..Len(outcomes[u]) :
       outcomes[u][i].kind = "ok" /\ ExpectedText(outcomes[u][i].resp) = v

\* every entry of the response cache comes from a successful remote call
FromSuccesses ==
  \A i \in 1..Len(resp_cache) :
    \E u \in Tasks : Succeeded(u, resp_cache[i].key, resp_cache[i].value)

\* C27: every entry of the response cache holds the text that a successful
\* remote call for the entry's fingerprint returned; a step in which an
\* attempt fails or times out, or a task ends with an error, leaves the cache
\* as it is; so a call that takes its result from the cache takes the result
\* of a successful call, and after failures only, a call with the same
\* fingerprint goes on to a remote call of its own.
C27OnlySuccessesCached ==
  [][/\ FromSuccesses'
     /\ \A t \in Tasks :
          /\ ( \/ outcomes'[t] # outcomes[t] /\ Last(outcomes'[t]).kind # "ok"
               \/ error'[t] # error[t] )
             => resp_cache' = resp_cache
          /\ (pc[t] = "build" /\ pc'[t] = "write_wait")
             => \E u \in Tasks : Succeeded(u, Key(t), result'[t])
          /\ (pc[t] = "build" /\ pc'[t] # "build" /\ model_id \in DOMAIN default_models
                /\ \A u \in Tasks : \A i \in 1..Len(outcomes[u]) : outcomes[u][i].kind # "ok")
             => pc'[t] = "acquire"
    ]_vars

\* with one slot, a task has failed in its remote call, the cache is empty,
\* and the next task, whose request has the same fingerprint, is in a
\* remote call of its own
C27Witness ==
  /\ batch_size = 1
  /\ resp_cache = <<>>
  /\ \E t, u \in Tasks :
       /\ t # u
       /\ text[t] # None /\ text[u] # None /\ Key(t) = Key(u)
       /\ pc[t] = "done" /\ error[t] \in {"APIError", "RuntimeError", "TimeoutError"}
       /\ pc[u] = "calling" /\ calls[u] = 1

(***************************************************************************)
(* The slots of the semaphore.                                             *)
(***************************************************************************)
\* C28: the slots taken from the semaphore are as many as the tasks inside
\* the `async with semaphore` of process_file; a task that ends, with its
\* output written or with an error of any kind, gives its slot to the first
\* waiter or back to the counter in the same step; and when run_batch has
\* returned, all batch_size slots are free and nobody waits.
C28NoSlotLeak ==
  [][/\ batch_size - sem_value' = Cardinality(Holders')
     /\ batch' = "returned" => (sem_value' = batch_size /\ sem_waiters' = <<>>)
     /\ \A t \in Tasks :
          (t \in Holders /\ pc'[t] = "done")
          => IF sem_waiters = <<>>
             THEN sem_value' = sem_value + 1 /\ sem_waiters' = <<>>
             ELSE /\ sem_value' = sem_value
                  /\ sem_waiters' = Tail(sem_waiters)
                  /\ pc'[Head(sem_waiters)] = "enter"
    ]_vars

\* run_batch has returned after one task failed and another wrote its
\* output, and every slot is free
C28Witness ==
  /\ batch = "returned"
  /\ sem_value = batch_size
  /\ \E t, u \in Tasks : error[t] # NoError /\ error[u] = NoError /\ Wrote(u)

(***************************************************************************)
(* The timeout and the wait for a permit.                                  *)
(***************************************************************************)
\* C29: the 60 s of the timeout run from the start of a remote call: no
\* time counts against a task while it waits for a permit, a waiting task
\* goes nowhere but on to its remote call, without an error, every remote
\* call starts with the full 60 s ahead, and a task gets a TimeoutError only
\* when its remote call has been under way for 60 s.
C29WaitNotTimed ==
  [][\A t \in Tasks :
       /\ pc[t] = "lim_wait"
          => /\ pc'[t] \in {"lim_wait", "calling"}
             /\ error'[t] = NoError
             /\ timer[t] = 0 /\ timer'[t] = 0
       /\ (pc[t] # "calling" /\ pc'[t] = "calling") => timer'[t] = 0
       /\ (error[t] # "TimeoutError" /\ error'[t] = "TimeoutError")
          => pc[t] = "calling" /\ timer[t] = 600
    ]_vars

\* the third task starts its remote call when the second, which took the
\* permit that the pro bucket had for a waiter after 30 s, has been in its
\* second attempt for 30 s: the third task has waited for 60 s
C29Witness ==
  /\ Len(input_files) >= 3
  /\ Class = "pro"
  /\ pc[3] = "calling" /\ calls[3] = 1 /\ timer[3] = 0
  /\ calls[2] = 2
  /\ admits["pro"] = <<[age |-> 300, waited |-> TRUE], [age |-> 0, waited |-> TRUE]>>

(***************************************************************************)
(* The range selector and the order of the tokens.                         *)
(***************************************************************************)
\* the tokens of the spec, as a set: neither their order nor their number
\* of occurrences is kept
Tokens == {sanitize(part) : part \in Range(Split(spec, ","))} \ {<<>>}

\* a token without the dash that makes it an exclusion
Stem(tok) == IF IsExcluded(tok) THEN Tail(tok) ELSE tok

\* the positions that the excluding (or the including) tokens name
Named(excluding) ==
  UNION {Positions(Stem(tok), total) : tok \in {x \in Tokens : IsExcluded(x) = excluding}}

\* C30: what parse_range returns depends on the set of the spec's tokens
\* only, not on their order or on repetitions: it is the sorted list of the
\* positions that the including tokens name without those that the
\* excluding tokens name, wherever in the spec these stand; and it raises
\* ValueError just when some token of the set is malformed.
C30OrderIndependent ==
  fn = "parse_range"
  => /\ fn_pc \in {"returned", "selected"}
        => /\ selection = Sorted(Named(FALSE) \ Named(TRUE))
           /\ \A n \in Named(TRUE) : n \notin Range(selection)
           /\ \A tok \in Tokens : Rejected(Stem(tok)) = <<>>
     /\ raised = "ValueError"
        => \E tok \in Tokens : Rejected(Stem(tok)) # <<>>

\* "-1,1-" has been parsed for a list of two files: the position that the
\* first token excludes is absent although a later token includes it
C30Witness ==
  /\ fn = "parse_range" /\ fn_pc = "returned"
  /\ spec = <<"-", "1", ",", "1", "-">>
  /\ total = 2
  /\ selection = <<2>>

====
